---- MODULE Spec2Model ----
(***************************************************************************)
(* Model of the vec3 / quat value types of the Simple Math Library (SML).  *)
(*                                                                         *)
(* The library is a set of value types with no shared state, so the state  *)
(* machine is a client that constructs operands and applies one operation  *)
(* of the library to them: Init draws the numeric type T and the           *)
(* constructed receiver, each action draws the remaining operands, applies *)
(* the operation as the source computes it, and records the operation, the *)
(* receiver before it and what it returned.                                *)
(*                                                                         *)
(* Build.  The two headers are compiled by g++ for x86-64 with AVX, C++17, *)
(* without optimisation and with -fpermissive: vec3::operator = and the    *)
(* copy constructor of quat pass a const array to set(T v[]), which g++    *)
(* accepts under that flag only, and the body of vec3::dot is accepted     *)
(* only while the intrinsics are macros, which they are without            *)
(* optimisation.  A member of a class template is compiled when a program  *)
(* first calls it; a call to a member whose body is ill-formed even so     *)
(* yields no program at all (see NoProgram).                               *)
(*                                                                         *)
(* Scalars.  A value of T is a pair <<n, d>>: the rational n/d in lowest   *)
(* terms when d > 0, and the IEEE-754 specials when d = 0: <<1,0>> is +inf,*)
(* <<-1,0>> is -inf and <<0,0>> is NaN.  Signed zero is not distinguished  *)
(* (-0 == 0 in every comparison the source makes).  The vec3 operations    *)
(* and the quaternion inverse are explored only on operands for which IEEE *)
(* arithmetic is exact (dyadic results, perfect-square lengths), so        *)
(* rational arithmetic and the float arithmetic of the build agree on      *)
(* every explored input.  euler and the rotation of a vector are not exact *)
(* in any float type: there the square root of a non-square is cut to a    *)
(* multiple of 1/128, sine and cosine are tabulated at the multiples of    *)
(* pi/6, and the properties compare results up to 1/64.                    *)
(* An integer T uses the same pairs with d = 1: s32 with truncating        *)
(* division, u32 and bool as described with Cast.                          *)
(*                                                                         *)
(* Storage.  A vec3<T> is its array T v[4]: <<x, y, z, padding>>.  A       *)
(* quat<T> is its four scalars <<x, y, z, w>>; its member xyz is a vec3<T> *)
(* laid over the same storage, so the fourth slot of xyz is w.             *)
(***************************************************************************)
EXTENDS Integers, Sequences, FiniteSets

VARIABLES
    ty,   \* the numeric type T of the instantiation
    a,    \* the receiver vec3
    b,    \* the vec3 operand of the operation
    c,    \* the second vec3 operand (the upper bound of clamp)
    s,    \* the scalar operand
    q,    \* the receiver quat
    p,    \* the quat operand
    mat,  \* the mat3 operand, row by row
    op,   \* the operation that ran, "init" before any
    old,  \* the receiver before the operation
    rv,   \* the vec3 or quat the operation returned
    rb    \* the bool the operation returned

vars == <<ty, a, b, c, s, q, p, mat, op, old, rv, rb>>

(***************************************************************************)
(* Bounds of the explored inputs.                                          *)
(***************************************************************************)
\* components of the constructed receiver vec3 range over -1..MaxVal
MaxVal == 2
\* components of operand vectors and scalar operands range over -1..MaxArg
MaxArg == 1
\* components of quaternions range over -1..MaxQuat
MaxQuat == 1

(***************************************************************************)
(* The numeric types T that vec3 is instantiated with: bvec3, uvec3,       *)
(* ivec3, fvec3 and dvec3.  bool, u32 and s32 take the scalar fallback     *)
(* path, f32 and f64 the two vectorized paths.                             *)
(***************************************************************************)
Types == {"bool", "u32", "s32", "f32", "f64"}

IsFloat(t) == t \in {"f32", "f64"}

(***************************************************************************)
(* Scalar arithmetic of T.                                                 *)
(***************************************************************************)
Abs(n) == IF n < 0 THEN -n ELSE n

Sgn(n) == IF n < 0 THEN -1 ELSE IF n > 0 THEN 1 ELSE 0

RECURSIVE Gcd(_, _)
Gcd(m, n) == IF n = 0 THEN m ELSE Gcd(n, m % n)

\* the pair for n/d: lowest terms, d > 0; n/0 is an infinity or NaN
Norm(n, d) ==
    IF d = 0 THEN <<Sgn(n), 0>>
    ELSE LET g  == Gcd(Abs(n), Abs(d))
             sg == IF d < 0 THEN -1 ELSE 1
         IN  <<(sg * n) \div g, (sg * d) \div g>>

Num(n) == <<n, 1>>

Zero == <<0, 1>>

One == <<1, 1>>

NaN == <<0, 0>>

IsNaN(x) == x[2] = 0 /\ x[1] = 0

IsInf(x) == x[2] = 0 /\ x[1] # 0

IsFinite(x) == x[2] > 0

\* x + y
SAdd(x, y) ==
    IF IsNaN(x) \/ IsNaN(y) THEN NaN
    ELSE IF IsInf(x) /\ IsInf(y) THEN (IF x = y THEN x ELSE NaN)
    ELSE IF IsInf(x) THEN x
    ELSE IF IsInf(y) THEN y
    ELSE LET g == Gcd(x[2], y[2])
         IN  Norm(x[1] * (y[2] \div g) + y[1] * (x[2] \div g),
                  (x[2] \div g) * y[2])

\* -x
SNeg(x) == <<-x[1], x[2]>>

\* x - y
SSub(x, y) == SAdd(x, SNeg(y))

\* x * y  (0 * inf and NaN * y come out as 0/0)
SMul(x, y) ==
    IF IsFinite(x) /\ IsFinite(y)
    THEN LET g1 == Gcd(Abs(x[1]), y[2])
             g2 == Gcd(Abs(y[1]), x[2])
         IN  Norm((x[1] \div g1) * (y[1] \div g2), (x[2] \div g2) * (y[2] \div g1))
    ELSE Norm(x[1] * y[1], x[2] * y[2])

\* x / y on a floating T: x/0 is an infinity, 0/0 and inf/inf are NaN
FDiv(x, y) ==
    LET sy == IF y[1] < 0 THEN -1 ELSE 1
    IN  Norm(x[1] * y[2] * sy, x[2] * Abs(y[1]))

\* the largest and the smallest s32, 2^31 - 1 and -2^31
MaxS32 == 2147483647

MinS32 == -MaxS32 - 1

\* x / y on int: the quotient truncated toward zero.  Division by zero, and
\* of MinS32 by -1, traps: it yields no value, written <<0, 0>>, and an
\* operation that meets it has no state after it (see Defined).
IDiv(x, y) ==
    IF y[1] = 0 THEN NaN
    ELSE IF y[1] = MinS32 THEN (IF x[1] = MinS32 THEN One ELSE Zero)
    ELSE IF x[1] = MinS32
    THEN IF y[1] = -1 THEN NaN
         ELSE IF y[1] = 1 THEN x
         ELSE LET near == x[1] + Abs(y[1])
              IN  Num(Sgn(near) * Sgn(y[1]) * (Abs(near) \div Abs(y[1]))
                      - Sgn(y[1]))
    ELSE Num(Sgn(x[1]) * Sgn(y[1]) * (Abs(x[1]) \div Abs(y[1])))

\* x == y: false when either side is NaN
SEq(x, y) == ~IsNaN(x) /\ ~IsNaN(y) /\ x = y

\* x != y
SNe(x, y) == ~SEq(x, y)

\* x < y: false when either side is NaN
SLt(x, y) ==
    /\ ~IsNaN(x)
    /\ ~IsNaN(y)
    /\ IF IsFinite(x) /\ IsFinite(y)
       THEN LET g == Gcd(x[2], y[2])
            IN  x[1] * (y[2] \div g) < y[1] * (x[2] \div g)
       ELSE IF IsFinite(x) THEN y[1] > 0
       ELSE IF IsFinite(y) THEN x[1] < 0
       ELSE x[1] < y[1]

\* x > y
SGt(x, y) == SLt(y, x)

\* x <= y
SLe(x, y) == SLt(x, y) \/ SEq(x, y)

(***************************************************************************)
(* The integer types.  A bool is 0 or 1; in arithmetic it is promoted to   *)
(* int, and an int stored into a bool becomes 1 unless it is 0.  A u32 is  *)
(* held as the s32 that has the same 32 bits, so 4294967295 is <<-1, 1>>   *)
(* and a negative numerator stands for a value of 2^31 or more: sums,      *)
(* differences and products have the same 32 bits in both readings, while *)
(* quotients, order and square roots are taken on the unsigned reading.    *)
(* Sums, differences and products keep their low 32 bits: on u32 by the    *)
(* rules of the language, on int (where an overflow is undefined) because  *)
(* the build, which does not optimise, emits the wrapping instructions.    *)
(* They are computed on 16-bit halves, so that no step leaves 32 bits.     *)
(***************************************************************************)
\* the high and the low 16 bits of the 32 bits of n, and n back from them
Hi16(n) == (n \div 65536) % 65536

Lo16(n) == n % 65536

Join16(h, l) == (IF h >= 32768 THEN h - 65536 ELSE h) * 65536 + l

\* m + n, m - n and m * n to 32 bits
WAdd(m, n) ==
    LET l == Lo16(m) + Lo16(n)
    IN  Join16((Hi16(m) + Hi16(n) + (l \div 65536)) % 65536, l % 65536)

WSub(m, n) ==
    LET l == Lo16(m) - Lo16(n)
    IN  Join16((Hi16(m) - Hi16(n) + (l \div 65536)) % 65536, l % 65536)

\* the low 16 bits of u * v, for u and v of 16 bits each
MulLo16(u, v) ==
    ((u * (v % 256)) + ((u * (v \div 256)) % 256) * 256) % 65536

WMul(m, n) ==
    LET ml   == Lo16(m)
        nl   == Lo16(n)
        byA  == ml * (nl % 256)
        byB  == ml * (nl \div 256)
        sum  == byA + (byB % 256) * 256
        high == (sum \div 65536) + (byB \div 256)
    IN  Join16((high + MulLo16(Hi16(m), nl) + MulLo16(ml, Hi16(n))) % 65536,
               sum % 65536)

\* a value stored into a T
Cast(t, x) ==
    IF t = "bool" /\ IsFinite(x) THEN (IF x[1] = 0 THEN Zero ELSE One) ELSE x

\* x < y on u32
ULt(x, y) ==
    IF (x[1] < 0) = (y[1] < 0) THEN x[1] < y[1] ELSE y[1] < 0

\* x / y on u32.  An x of 2^31 or more is 2 * half + low on the unsigned
\* reading, and is divided through its half.
UDiv(x, y) ==
    IF y[1] = 0 THEN NaN
    ELSE IF y[1] = 1 THEN x
    ELSE IF y[1] < 0 THEN (IF x[1] < 0 /\ x[1] >= y[1] THEN One ELSE Zero)
    ELSE IF x[1] >= 0 THEN Num(x[1] \div y[1])
    ELSE LET half == MaxS32 + (1 + (x[1] \div 2))
             low  == x[1] % 2
             quot == half \div y[1]
             rest == half % y[1]
         IN  Num(2 * quot + (IF rest >= y[1] - rest - low THEN 1 ELSE 0))

\* x + y, x - y and x * y as the operands of type T give them: in T, and
\* for bool in the int the operands are promoted to
PAdd(t, x, y) == IF IsFloat(t) THEN SAdd(x, y) ELSE Num(WAdd(x[1], y[1]))

PSub(t, x, y) == IF IsFloat(t) THEN SSub(x, y) ELSE Num(WSub(x[1], y[1]))

PMul(t, x, y) == IF IsFloat(t) THEN SMul(x, y) ELSE Num(WMul(x[1], y[1]))

\* x + y, x - y, x * y and x / y stored into a T
TAdd(t, x, y) == Cast(t, PAdd(t, x, y))

TSub(t, x, y) == Cast(t, PSub(t, x, y))

TMul(t, x, y) == Cast(t, PMul(t, x, y))

SDiv(t, x, y) ==
    IF IsFloat(t) THEN FDiv(x, y)
    ELSE IF t = "u32" THEN UDiv(x, y)
    ELSE Cast(t, IDiv(x, y))

\* x < y and x > y on operands of type T
TLt(t, x, y) == IF t = "u32" THEN ULt(x, y) ELSE SLt(x, y)

TGt(t, x, y) == TLt(t, y, x)

\* a T converted to float compares above the float y
FloatGt(t, x, y) ==
    IF IsFloat(t) \/ ~IsFinite(x) THEN SGt(x, y)
    ELSE IF t = "u32" /\ x[1] < 0 THEN TRUE
    ELSE IF x[1] >= 1 THEN SLt(y, One) \/ SGt(x, y)
    ELSE SLt(y, Zero) /\ SGt(x, y)

(***************************************************************************)
(* Exactness: the denominators a float result may have for the operation   *)
(* to be explored (a dyadic rational is what IEEE division returns         *)
(* exactly), and the integer square root.                                  *)
(***************************************************************************)
ExactDen == {1, 2, 4, 8, 16, 32, 64}

Exact(x) == x[2] = 0 \/ x[2] \in ExactDen

ExactVec(v) == \A i \in 1..4 : Exact(v[i])

\* the operation that left v is explored: exact on a float T, no trap on an
\* integer T
Defined(t, v) ==
    IF IsFloat(t) THEN ExactVec(v) ELSE \A i \in 1..3 : IsFinite(v[i])

\* floor of the square root of n >= 0
ISqrt(n) == CHOOSE k \in 0..n : k * k <= n /\ (k + 1) * (k + 1) > n

IsSquare(n) == n >= 0 /\ ISqrt(n) * ISqrt(n) = n

\* the square root is exact on x
ExactSqrt(x) == IsFinite(x) => (IsSquare(x[1]) /\ IsSquare(x[2]))

\* the largest k in lo..hi with k * k <= n, given lo * lo <= n
RECURSIVE RootBetween(_, _, _)
RootBetween(n, lo, hi) ==
    IF lo = hi THEN lo
    ELSE LET mid == (lo + hi + 1) \div 2
         IN  IF mid * mid <= n THEN RootBetween(n, mid, hi)
             ELSE RootBetween(n, lo, mid - 1)

\* the square root of a float x that is not a perfect square, to seven
\* binary places: x is cut to a multiple of 1/256, and the root is the
\* multiple of 1/128 below the root of that
RootFloor(x) ==
    LET g == Gcd(256, x[2])
        m == (x[1] * (256 \div g)) \div (x[2] \div g)
    IN  Norm(RootBetween(m * 64, 0, 32768), 128)

\* the integer below the square root of a u32 of 2^31 or more: with h the
\* quarter of it and r the root of h, it is 2r, or 2r + 1 when
\* (2r + 1)^2 does not exceed it
USqrt(x) ==
    LET h == 1073741824 + (x[1] \div 4)
        f == x[1] % 4
        r == RootBetween(h, 0, 32767)
    IN  IF r * r + r <= (IF f = 0 THEN h - 1 ELSE h)
        THEN Num(2 * r + 1) ELSE Num(2 * r)

\* sml::sqrt returning T: exact on a float perfect square, to seven binary
\* places on any other float, truncated to the integer below on an integer T.
\* The root of a negative int is NaN, which the build converts to MinS32.
sqrt(t, x) ==
    IF t = "u32" /\ IsFinite(x) /\ x[1] < 0 THEN USqrt(x)
    ELSE IF ~IsFloat(t) /\ IsFinite(x) /\ x[1] < 0 THEN Num(MinS32)
    ELSE IF IsNaN(x) \/ (IsFinite(x) /\ x[1] < 0) \/ x = <<-1, 0>> THEN NaN
    ELSE IF IsInf(x) THEN x
    ELSE IF IsFloat(t)
    THEN IF IsSquare(x[1]) /\ IsSquare(x[2])
         THEN <<ISqrt(x[1]), ISqrt(x[2])>>
         ELSE RootFloor(x)
    ELSE Num(RootBetween(x[1], 0, 46340))

\* sml::min and sml::max on scalars of type T
sml_min(t, x, y) == IF TLt(t, x, y) THEN x ELSE y

sml_max(t, x, y) == IF TGt(t, x, y) THEN x ELSE y

\* constants::epsilon, the threshold of normalize
epsilon == <<1, 1048576>>

(***************************************************************************)
(* Angles.  constants::pi is held to six binary places, and the sine and   *)
(* cosine of the scalar-math helper are tabulated at the multiples of      *)
(* pi/6, with their irrational value sqrt(3)/2 held as sqrt holds it.  An  *)
(* operation is explored only when every angle it hands to them is on the  *)
(* table (OnTable).  What the model computes from these values is within   *)
(* one part in a hundred of what the floats of the build give.             *)
(***************************************************************************)
pi == <<201, 64>>

\* constants::deg2rad
deg2rad == FDiv(pi, Num(180))

\* k * pi / 6
Sixth(k) == SMul(Num(k), FDiv(pi, Num(6)))

\* x in units of pi/6
InSixths(x) == FDiv(x, FDiv(pi, Num(6)))

\* x is a multiple of pi/6
OnTable(x) == IsFinite(x) /\ InSixths(x)[2] = 1

\* sqrt(3)/2
HalfRoot3 == FDiv(sqrt("f64", Num(3)), Num(2))

\* sin(k * pi / 6) for k = 0..11
SinSixths ==
    <<Zero, <<1, 2>>, HalfRoot3, One, HalfRoot3, <<1, 2>>,
      Zero, <<-1, 2>>, SNeg(HalfRoot3), Num(-1), SNeg(HalfRoot3), <<-1, 2>>>>

\* sml::sin, sml::cos
sml_sin(x) == SinSixths[(InSixths(x)[1] % 12) + 1]

sml_cos(x) == SinSixths[((InSixths(x)[1] + 3) % 12) + 1]

\* normalizeAngle: the angle in degrees wrapped into (-180, 180]
RECURSIVE normalizeAngle(_)
normalizeAngle(x) ==
    IF SGt(x, Num(180)) THEN normalizeAngle(SSub(x, Num(360)))
    ELSE IF SLe(x, Num(-180)) THEN normalizeAngle(SAdd(x, Num(360)))
    ELSE x

(***************************************************************************)
(* The vector instructions, lane by lane.                                  *)
(***************************************************************************)
\* _mm_load_ps / _mm256_load_pd: the four slots of v
load4(v) == <<v[1], v[2], v[3], v[4]>>

\* _mm_load_pd: the first two slots of v
load2(v) == <<v[1], v[2]>>

\* _mm_broadcast_ss / _mm256_set1_pd
broadcast(x) == <<x, x, x, x>>

mm_add(me, him) == <<SAdd(me[1], him[1]), SAdd(me[2], him[2]), SAdd(me[3], him[3]), SAdd(me[4], him[4])>>

mm_sub(me, him) == <<SSub(me[1], him[1]), SSub(me[2], him[2]), SSub(me[3], him[3]), SSub(me[4], him[4])>>

mm_mul(me, him) == <<SMul(me[1], him[1]), SMul(me[2], him[2]), SMul(me[3], him[3]), SMul(me[4], him[4])>>

mm_div(me, him) == <<FDiv(me[1], him[1]), FDiv(me[2], him[2]), FDiv(me[3], him[3]), FDiv(me[4], him[4])>>

\* minps/minpd: me < him ? me : him, so him when either is NaN
mm_min(me, him) ==
    <<IF SLt(me[1], him[1]) THEN me[1] ELSE him[1],
      IF SLt(me[2], him[2]) THEN me[2] ELSE him[2],
      IF SLt(me[3], him[3]) THEN me[3] ELSE him[3],
      IF SLt(me[4], him[4]) THEN me[4] ELSE him[4]>>

\* maxps/maxpd: me > him ? me : him
mm_max(me, him) ==
    <<IF SGt(me[1], him[1]) THEN me[1] ELSE him[1],
      IF SGt(me[2], him[2]) THEN me[2] ELSE him[2],
      IF SGt(me[3], him[3]) THEN me[3] ELSE him[3],
      IF SGt(me[4], him[4]) THEN me[4] ELSE him[4]>>

\* cmpeqps/cmpeqpd: per lane, all bits set (TRUE) when equal, else clear
mm_cmpeq(me, ot) == [i \in DOMAIN me |-> SEq(me[i], ot[i])]

\* cmpneqps/cmpneqpd: per lane, all bits set when not equal (or unordered)
mm_cmpneq(me, ot) == [i \in DOMAIN me |-> SNe(me[i], ot[i])]

\* _mm_testc_si128(x, y): the carry flag, 1 when (~x & y) is all zero
mm_testc(x, y) == \A i \in DOMAIN x : ~(~x[i] /\ y[i])

(***************************************************************************)
(* A call that the compiler rejects.  The members of the two class         *)
(* templates are compiled when a program first calls them; for some of     *)
(* them the body is ill-formed for every T, and a program that makes the   *)
(* call is not built.  Such a call returns nothing and leaves no receiver  *)
(* behind: its outcome is NoProgram, for every operand.                    *)
(***************************************************************************)
NoProgram == <<>>

(***************************************************************************)
(* vec3<T>: the storage is <<x, y, z, padding>>.                           *)
(***************************************************************************)
\* vec3(): zero(), then v[3] = 0
vec3_default == <<Zero, Zero, Zero, Zero>>

\* vec3(T x, T y, T z): set(x, y, z), then v[3] = 0
vec3_ctor(x, y, z) == <<x, y, z, Zero>>

\* vec3(const vec3&) and vec3(vec3&&): the three components, then v[3] = 0
vec3_copy(other) == <<other[1], other[2], other[3], Zero>>

\* set(T x, T y, T z): the fourth slot is left as it is
vec3_set(me, x, y, z) == <<x, y, z, me[4]>>

\* set(T v[3])
vec3_set_array(me, v) == <<v[1], v[2], v[3], me[4]>>

\* zero()
vec3_zero(me) == vec3_set(me, Zero, Zero, Zero)

\* operator = (const vec3&) and operator = (vec3&&)
vec3_assign(me, other) == vec3_set_array(me, other)

\* vec3view<T>: the three scalars <<x, y, z>> of a vec3, without the padding.
\* vec3view(const vec3&), vec3view(vec3&&) and the two operator = of a view
vec3view_ctor(other) == <<other[1], other[2], other[3]>>

\* operator = (const vec3view&) and operator = (vec3view&&) of a vec3
vec3_assign_view(me, other) == <<other[1], other[2], other[3], me[4]>>

\* operator ==
vec3_eq(t, me, other) ==
    IF t = "f32"
    THEN LET cmp == mm_cmpeq(load4(me), load4(other)) IN mm_testc(cmp, cmp)
    ELSE IF t = "f64"
    THEN LET cmp == mm_cmpeq(load2(me), load2(other)) IN mm_testc(cmp, cmp)
    ELSE SEq(me[1], other[1]) /\ SEq(me[2], other[2]) /\ SEq(me[3], other[3])

\* operator !=
vec3_ne(t, me, other) ==
    IF t = "f32"
    THEN LET cmp == mm_cmpneq(load4(me), load4(other)) IN mm_testc(cmp, cmp)
    ELSE IF t = "f64"
    THEN LET cmp == mm_cmpneq(load2(me), load2(other)) IN mm_testc(cmp, cmp)
    ELSE SNe(me[1], other[1]) \/ SNe(me[2], other[2]) \/ SNe(me[3], other[3])

\* operator += (const vec3&)
vec3_add_assign(t, me, other) ==
    IF IsFloat(t) THEN mm_add(load4(me), load4(other))
    ELSE <<TAdd(t, me[1], other[1]), TAdd(t, me[2], other[2]), TAdd(t, me[3], other[3]), me[4]>>

\* operator -= (const vec3&)
vec3_sub_assign(t, me, other) ==
    IF IsFloat(t) THEN mm_sub(load4(me), load4(other))
    ELSE <<TSub(t, me[1], other[1]), TSub(t, me[2], other[2]), TSub(t, me[3], other[3]), me[4]>>

\* operator *= (const vec3&)
vec3_mul_assign(t, me, other) ==
    IF IsFloat(t) THEN mm_mul(load4(me), load4(other))
    ELSE <<TMul(t, me[1], other[1]), TMul(t, me[2], other[2]), TMul(t, me[3], other[3]), me[4]>>

\* operator *= (const T)
vec3_mul_assign_scalar(t, me, other) ==
    IF IsFloat(t) THEN mm_mul(load4(me), broadcast(other))
    ELSE <<TMul(t, me[1], other), TMul(t, me[2], other), TMul(t, me[3], other), me[4]>>

\* operator /= (const vec3&)
vec3_div_assign(t, me, other) ==
    IF IsFloat(t) THEN mm_div(load4(me), load4(other))
    ELSE <<SDiv(t, me[1], other[1]), SDiv(t, me[2], other[2]), SDiv(t, me[3], other[3]), me[4]>>

\* operator /= (const T)
vec3_div_assign_scalar(t, me, other) ==
    IF IsFloat(t) THEN mm_div(load4(me), broadcast(other))
    ELSE <<SDiv(t, me[1], other), SDiv(t, me[2], other), SDiv(t, me[3], other), me[4]>>

\* (x * x) + (y * y) + (z * z), in T or, for bool, in the int it is promoted to
vec3_sumsq(t, me) ==
    PAdd(t, PAdd(t, PMul(t, me[1], me[1]), PMul(t, me[2], me[2])),
         PMul(t, me[3], me[3]))

\* lengthsquared()
vec3_lengthsquared(t, me) == Cast(t, vec3_sumsq(t, me))

\* length(): sml::sqrt of the sum, stored into a T
vec3_length(t, me) ==
    Cast(t, sqrt(IF t = "bool" THEN "s32" ELSE t, vec3_sumsq(t, me)))

\* normalize() without the epsilon guard
vec3_normalize_unguarded(t, me) == vec3_div_assign_scalar(t, me, vec3_length(t, me))

\* normalize()
vec3_normalize(t, me) ==
    LET mag == vec3_length(t, me)
    IN  IF FloatGt(t, mag, epsilon)
        THEN vec3_div_assign_scalar(t, me, vec3_length(t, me))
        ELSE vec3_set(me, Zero, Zero, Zero)

\* normalized(): normalize() on a copy built from x, y, z, returned by value
vec3_normalized(t, me) == vec3_copy(vec3_normalize(t, vec3_ctor(me[1], me[2], me[3])))

\* static min(a, b).  On a float T the four lanes are stored into the local
\* result, which is returned by value: the function has a second return
\* statement, so the move constructor runs and sets the fourth slot to zero.
vec3_min(t, x, y) ==
    IF IsFloat(t) THEN vec3_copy(mm_min(load4(x), load4(y)))
    ELSE vec3_ctor(sml_min(t, x[1], y[1]), sml_min(t, x[2], y[2]), sml_min(t, x[3], y[3]))

\* static max(a, b)
vec3_max(t, x, y) ==
    IF IsFloat(t) THEN vec3_copy(mm_max(load4(x), load4(y)))
    ELSE vec3_ctor(sml_max(t, x[1], y[2]), sml_max(t, x[2], y[2]), sml_max(t, x[3], y[3]))

\* static clamp(v, a, b)
vec3_clamp(t, v, lo, hi) == vec3_max(t, lo, vec3_min(t, v, hi))

\* static cross(left, right) with right.x slipped to right.y in the last term
vec3_cross_slip(t, left, right) ==
    vec3_ctor(TSub(t, PMul(t, left[2], right[3]), PMul(t, left[3], right[2])),
              TSub(t, PMul(t, left[3], right[1]), PMul(t, left[1], right[3])),
              TSub(t, PMul(t, left[1], right[2]), PMul(t, left[2], right[2])))

\* static cross(left, right): each difference of products is stored into a T
vec3_cross(t, left, right) ==
    vec3_ctor(TSub(t, PMul(t, left[2], right[3]), PMul(t, left[3], right[2])),
              TSub(t, PMul(t, left[3], right[1]), PMul(t, left[1], right[3])),
              TSub(t, PMul(t, left[1], right[2]), PMul(t, left[2], right[1])))

(***************************************************************************)
(* The binary operators of two vec3<T>.  Both operands are taken by value  *)
(* and left is returned by value: each is a copy, with its fourth slot 0.  *)
(***************************************************************************)
\* operator + (vec3, vec3)
vec3_plus(t, left, right) ==
    vec3_copy(vec3_add_assign(t, vec3_copy(left), vec3_copy(right)))

\* operator - (vec3, vec3)
vec3_minus(t, left, right) ==
    vec3_copy(vec3_sub_assign(t, vec3_copy(left), vec3_copy(right)))

\* operator * (vec3, vec3)
vec3_times(t, left, right) ==
    vec3_copy(vec3_mul_assign(t, vec3_copy(left), vec3_copy(right)))

\* operator / (vec3, vec3)
vec3_over(t, left, right) ==
    vec3_copy(vec3_div_assign(t, vec3_copy(left), vec3_copy(right)))

(***************************************************************************)
(* The binary operators of a vec3<T> and a T.                              *)
(***************************************************************************)
\* operator * (vec3, T): the body is "left += right" with right a T.  vec3 has
\* no operator += that takes a T, and a T is not converted to a vec3 (the
\* constructor vec3(T) is explicit): the call is rejected for every T.
vec3_times_scalar(left, right) == NoProgram

\* operator / (vec3, T): the same body, "left += right"
vec3_over_scalar(left, right) == NoProgram

(***************************************************************************)
(* quat<T>: the storage is <<x, y, z, w>>.                                 *)
(***************************************************************************)
\* the types quat is instantiated with (fquat, dquat)
QuatTypes == {"f32", "f64"}

\* vec4<T>::zero(), vec4<T>::lengthsquared()
vec4_zero == <<Zero, Zero, Zero, Zero>>

vec4_lengthsquared(v) ==
    SAdd(SAdd(SAdd(SMul(v[1], v[1]), SMul(v[2], v[2])), SMul(v[3], v[3])),
         SMul(v[4], v[4]))

\* quat(): v.zero()
quat_default == vec4_zero

\* quat(T x, T y, T z, T w)
quat_ctor(x, y, z, w) == <<x, y, z, w>>

\* quat(const vec4&), quat(const quat&), quat(quat&&): all four scalars
quat_copy(other) == <<other[1], other[2], other[3], other[4]>>

\* the member xyz: a vec3 over the quaternion's storage, its fourth slot is w
quat_xyz(me) == <<me[1], me[2], me[3], me[4]>>

\* zero()
quat_zero(me) == <<Zero, Zero, Zero, Zero>>

\* set(T x, T y, T z, T w)
quat_set(me, x, y, z, w) == <<x, y, z, w>>

\* set(T v[4])
quat_set_array(me, v) == <<v[1], v[2], v[3], v[4]>>

\* set(const vec4&): v = other
quat_set_vec4(me, other) == <<other[1], other[2], other[3], other[4]>>

\* set(const vec3& xyz, T scalar): xyz is assigned through operator = of
\* vec3, which copies three scalars, then w
quat_set_vec3(me, xyz, scalar) ==
    LET part == vec3_assign(<<me[1], me[2], me[3], me[4]>>, xyz)
    IN  <<part[1], part[2], part[3], scalar>>

\* operator = (const quat&) and operator = (quat&&): constexpr functions that
\* return quat& and have no return statement, so the call is rejected
quat_assign(me, other) == NoProgram

\* vec4<T>::operator += and -=
vec4_add_assign(v, o) == [i \in 1..4 |-> SAdd(v[i], o[i])]

vec4_sub_assign(v, o) == [i \in 1..4 |-> SSub(v[i], o[i])]

\* operator += (const quat&): v += other.v
quat_add_assign(me, other) == vec4_add_assign(me, other)

\* operator -= (const quat&): v -= other.v
quat_sub_assign(me, other) == vec4_sub_assign(me, other)

\* static identity()
quat_identity == quat_ctor(Zero, Zero, Zero, One)

\* lengthsquared()
quat_lengthsquared(me) == vec4_lengthsquared(me)

\* operator *= (const quat&): "other.w * xyz" is a T times a vec3, for which
\* there is no operator, and "vec3<T>::dot(xyz, other.xyz)" calls a dot of
\* two arguments where vec3 has the member dot(vec3) only: the call is
\* rejected.
quat_mul_assign(me, other) == NoProgram

\* operator * (quat, quat): "left *= right", so rejected with it
quat_times(left, right) == NoProgram

\* invert() without the test of lengthSq
quat_invert_unguarded(t, me) ==
    LET i   == SDiv(t, One, quat_lengthsquared(me))
        xyz == vec3_mul_assign_scalar(t, quat_xyz(me), SNeg(i))
    IN  <<xyz[1], xyz[2], xyz[3], SMul(xyz[4], i)>>

\* invert(): xyz *= -i runs on the vec3 over the storage, then w *= i
quat_invert(t, me) ==
    LET lengthSq == quat_lengthsquared(me)
    IN  IF SNe(lengthSq, Zero)
        THEN LET i   == SDiv(t, One, lengthSq)
                 xyz == vec3_mul_assign_scalar(t, quat_xyz(me), SNeg(i))
             IN  <<xyz[1], xyz[2], xyz[3], SMul(xyz[4], i)>>
        ELSE me

\* inverse(): invert() on a copy, returned by value
quat_inverse(t, me) == quat_copy(quat_invert(t, quat_copy(me)))

\* static frommatrix3(const mat3&): return quat()
quat_frommatrix3(matrix) == quat_default

\* mat3<T>: nine scalars, row by row
mat3_zero == <<Zero, Zero, Zero, Zero, Zero, Zero, Zero, Zero, Zero>>

mat3_identity == <<One, Zero, Zero, Zero, One, Zero, Zero, Zero, One>>

\* the rotation by 90 degrees about z
mat3_rotz == <<Zero, Num(-1), Zero, One, Zero, Zero, Zero, Zero, One>>

\* vec4<T>::dot, vec4<T>::length, vec4<T>::operator *= (const T)
vec4_dot(v, o) ==
    SAdd(SAdd(SAdd(SMul(v[1], o[1]), SMul(v[2], o[2])), SMul(v[3], o[3])),
         SMul(v[4], o[4]))

vec4_length(t, v) == sqrt(t, vec4_lengthsquared(v))

vec4_mul_assign_scalar(v, k) ==
    <<SMul(v[1], k), SMul(v[2], k), SMul(v[3], k), SMul(v[4], k)>>

\* length()
quat_length(t, me) == vec4_length(t, me)

\* operator *= (const T): v *= other
quat_mul_assign_scalar(me, other) == vec4_mul_assign_scalar(me, other)

\* operator ==: the dot product above 0.999999
quat_eq(me, other) == SGt(vec4_dot(me, other), <<999999, 1000000>>)

\* normalize(): scale = 1 / length(), v *= scale
quat_normalize(t, me) ==
    LET scale == SDiv(t, One, quat_length(t, me))
    IN  vec4_mul_assign_scalar(me, scale)

\* normalized(): normalize() on a copy, returned by value
quat_normalized(t, me) == quat_copy(quat_normalize(t, quat_copy(me)))

\* static axisangle(axis, angle): "axis * sml::sin(angle)" goes through
\* operator * (vec3, T): the call is rejected, for a zero axis too.
\* (axis.normalize() is a call of a non-const member on a const reference,
\* which alone is accepted under -fpermissive.)
quat_axisangle(axis, angle) == NoProgram

\* static slerp(a, b, blend): "vec3<T>::dot(a.xyz, b.xyz)" has no dot to call,
\* "-b.xyz" has no unary minus to call, "a.w = -a.w" assigns to an operand,
\* which is a const reference, and "blendA * a.xyz" is a T times a vec3: the
\* call is rejected, on operands of zero length too.
quat_slerp(x, y, blend) == NoProgram

\* static euler(vec3 rotation): rotation in degrees, taken by value
quat_euler(t, rotation) ==
    LET rot   == vec3_mul_assign_scalar(t, vec3_copy(rotation), deg2rad)
        yaw   == rot[1]
        pitch == rot[2]
        roll  == rot[3]
        sinRollOver2  == sml_sin(SMul(roll, <<1, 2>>))
        cosRollOver2  == sml_cos(SMul(roll, <<1, 2>>))
        sinPitchOver2 == sml_sin(SMul(pitch, <<1, 2>>))
        cosPitchOver2 == sml_cos(SMul(pitch, <<1, 2>>))
        sinYawOver2   == sml_sin(SMul(yaw, <<1, 2>>))
        cosYawOver2   == sml_cos(SMul(yaw, <<1, 2>>))
    IN  quat_ctor(
            SAdd(SMul(SMul(cosYawOver2, cosPitchOver2), cosRollOver2),
                 SMul(SMul(sinYawOver2, sinPitchOver2), sinRollOver2)),
            SSub(SMul(SMul(cosYawOver2, cosPitchOver2), sinRollOver2),
                 SMul(SMul(sinYawOver2, sinPitchOver2), cosRollOver2)),
            SAdd(SMul(SMul(cosYawOver2, sinPitchOver2), cosRollOver2),
                 SMul(SMul(sinYawOver2, cosPitchOver2), sinRollOver2)),
            SSub(SMul(SMul(sinYawOver2, cosPitchOver2), cosRollOver2),
                 SMul(SMul(cosYawOver2, sinPitchOver2), sinRollOver2)))

\* eulerAngles(): each of its three returns is
\* normalizeAngles(res * constants::rad2deg), and "res * ..." goes through
\* operator * (vec3, T): the call is rejected.
quat_eulerAngles(me) == NoProgram

\* operator * (quat, vec3) with the sign of every product by w exchanged
quat_rotate_lefthanded(left, right) ==
    LET num   == SMul(left[1], Num(2))
        num2  == SMul(left[2], Num(2))
        num3  == SMul(left[3], Num(2))
        num4  == SMul(left[1], num)
        num5  == SMul(left[2], num2)
        num6  == SMul(left[3], num3)
        num7  == SMul(left[1], num2)
        num8  == SMul(left[1], num3)
        num9  == SMul(left[2], num3)
        num10 == SMul(left[4], num)
        num11 == SMul(left[4], num2)
        num12 == SMul(left[4], num3)
    IN  vec3_ctor(
            SAdd(SAdd(SMul(SSub(One, SAdd(num5, num6)), right[1]),
                      SMul(SAdd(num7, num12), right[2])),
                 SMul(SSub(num8, num11), right[3])),
            SAdd(SAdd(SMul(SSub(num7, num12), right[1]),
                      SMul(SSub(One, SAdd(num4, num6)), right[2])),
                 SMul(SAdd(num9, num10), right[3])),
            SAdd(SAdd(SMul(SAdd(num8, num11), right[1]),
                      SMul(SSub(num9, num10), right[2])),
                 SMul(SSub(One, SAdd(num4, num5)), right[3])))

\* operator * (quat, vec3): res is a vec3 built with padding zero
quat_rotate(left, right) ==
    LET num   == SMul(left[1], Num(2))
        num2  == SMul(left[2], Num(2))
        num3  == SMul(left[3], Num(2))
        num4  == SMul(left[1], num)
        num5  == SMul(left[2], num2)
        num6  == SMul(left[3], num3)
        num7  == SMul(left[1], num2)
        num8  == SMul(left[1], num3)
        num9  == SMul(left[2], num3)
        num10 == SMul(left[4], num)
        num11 == SMul(left[4], num2)
        num12 == SMul(left[4], num3)
    IN  vec3_ctor(
            SAdd(SAdd(SMul(SSub(One, SAdd(num5, num6)), right[1]),
                      SMul(SSub(num7, num12), right[2])),
                 SMul(SAdd(num8, num11), right[3])),
            SAdd(SAdd(SMul(SAdd(num7, num12), right[1]),
                      SMul(SSub(One, SAdd(num4, num6)), right[2])),
                 SMul(SSub(num9, num10), right[3])),
            SAdd(SAdd(SMul(SSub(num8, num11), right[1]),
                      SMul(SAdd(num9, num10), right[2])),
                 SMul(SSub(One, SAdd(num4, num5)), right[3])))

(***************************************************************************)
(* The client of vec3<T>.                                                  *)
(***************************************************************************)
\* the components x, y, z of v are all zero
IsZero3(v) == v[1] = Zero /\ v[2] = Zero /\ v[3] = Zero

Dom == {Num(n) : n \in -1..MaxVal}

ArgDom == {Num(n) : n \in -1..MaxArg}

\* the upper bounds handed to clamp
HiDom == {Num(n) : n \in (MaxArg - 1)..MaxArg}

Vecs(D) == {vec3_ctor(x, y, z) : x \in D, y \in D, z \in D}

\* the values of D handed over as a T, and the vectors built from them
TDom(t, D) == {Cast(t, x) : x \in D}

TVecs(t, D) == Vecs(TDom(t, D))

\* the state once operation name has run on receiver a: the receiver after
\* it, the operands it was given, and what it returned
Done(name, a2, b2, c2, s2, rv2, rb2) ==
    /\ op' = name
    /\ old' = a
    /\ a' = a2
    /\ b' = b2
    /\ c' = c2
    /\ s' = s2
    /\ rv' = rv2
    /\ rb' = rb2
    /\ UNCHANGED <<ty, q, p, mat>>

InitVec3 ==
    /\ ty \in Types
    /\ a \in TVecs(ty, Dom)
    /\ b = vec3_default
    /\ c = vec3_default
    /\ s = Zero
    /\ q = quat_default
    /\ p = quat_default
    /\ mat = mat3_zero
    /\ op = "init"
    /\ old = a
    /\ rv = vec3_default
    /\ rb = FALSE

DoZero ==
    /\ op = "init"
    /\ Done("zero", vec3_zero(a), b, c, s, rv, rb)

DoSet ==
    /\ op = "init"
    /\ \E x \in TDom(ty, ArgDom), y \in TDom(ty, ArgDom), z \in TDom(ty, ArgDom) :
           Done("set", vec3_set(a, x, y, z), vec3_ctor(x, y, z), c, s, rv, rb)

DoAssign ==
    /\ op = "init"
    /\ \E o \in TVecs(ty, ArgDom) : Done("assign", vec3_assign(a, o), o, c, s, rv, rb)

\* a.set(array) with the three scalars of o
DoSetArray ==
    /\ op = "init"
    /\ \E o \in TVecs(ty, ArgDom) :
           Done("set_array", vec3_set_array(a, <<o[1], o[2], o[3]>>), o, c, s, rv, rb)

\* a = view, with view a vec3view made of o
DoAssignView ==
    /\ op = "init"
    /\ \E o \in TVecs(ty, ArgDom) :
           Done("assign_view", vec3_assign_view(a, vec3view_ctor(o)), o, c, s, rv, rb)

DoAddAssign ==
    /\ op = "init"
    /\ \E o \in TVecs(ty, ArgDom) : Done("add_assign", vec3_add_assign(ty, a, o), o, c, s, rv, rb)

DoSubAssign ==
    /\ op = "init"
    /\ \E o \in TVecs(ty, ArgDom) : Done("sub_assign", vec3_sub_assign(ty, a, o), o, c, s, rv, rb)

DoMulAssign ==
    /\ op = "init"
    /\ \E o \in TVecs(ty, ArgDom) : Done("mul_assign", vec3_mul_assign(ty, a, o), o, c, s, rv, rb)

DoMulAssignScalar ==
    /\ op = "init"
    /\ \E k \in TDom(ty, ArgDom) :
           Done("mul_assign_scalar", vec3_mul_assign_scalar(ty, a, k), b, c, k, rv, rb)

DoDivAssign ==
    /\ op = "init"
    /\ \E o \in TVecs(ty, ArgDom) :
           /\ Defined(ty, vec3_div_assign(ty, a, o))
           /\ Done("div_assign", vec3_div_assign(ty, a, o), o, c, s, rv, rb)

DoDivAssignScalar ==
    /\ op = "init"
    /\ \E k \in TDom(ty, ArgDom) :
           /\ Defined(ty, vec3_div_assign_scalar(ty, a, k))
           /\ Done("div_assign_scalar", vec3_div_assign_scalar(ty, a, k), b, c, k, rv, rb)

DoNormalize ==
    /\ op = "init"
    /\ IsFloat(ty) => ExactSqrt(vec3_lengthsquared(ty, a))
    /\ Defined(ty, vec3_normalize(ty, a))
    /\ Done("normalize", vec3_normalize(ty, a), b, c, s, rv, rb)

DoNormalized ==
    /\ op = "init"
    /\ IsFloat(ty) => ExactSqrt(vec3_lengthsquared(ty, a))
    /\ Defined(ty, vec3_normalized(ty, a))
    /\ Done("normalized", a, b, c, s, vec3_normalized(ty, a), rb)

DoEq ==
    /\ op = "init"
    /\ \E o \in TVecs(ty, ArgDom) : Done("eq", a, o, c, s, rv, vec3_eq(ty, a, o))

DoNe ==
    /\ op = "init"
    /\ \E o \in TVecs(ty, ArgDom) : Done("ne", a, o, c, s, rv, vec3_ne(ty, a, o))

DoMin ==
    /\ op = "init"
    /\ \E o \in TVecs(ty, ArgDom) : Done("min", a, o, c, s, vec3_min(ty, a, o), rb)

DoMax ==
    /\ op = "init"
    /\ \E o \in TVecs(ty, ArgDom) : Done("max", a, o, c, s, vec3_max(ty, a, o), rb)

\* clamp(v, a, b) with v the receiver, a the lower and b the upper bound
DoClamp ==
    /\ op = "init"
    /\ \E lo \in TVecs(ty, ArgDom), hi \in TVecs(ty, HiDom) :
           Done("clamp", a, lo, hi, s, vec3_clamp(ty, a, lo, hi), rb)

DoCross ==
    /\ op = "init"
    /\ \E o \in TVecs(ty, ArgDom) : Done("cross", a, o, c, s, vec3_cross(ty, a, o), rb)

\* a + o, a - o, a * o and a / o
DoPlus ==
    /\ op = "init"
    /\ \E o \in TVecs(ty, ArgDom) : Done("plus", a, o, c, s, vec3_plus(ty, a, o), rb)

DoMinus ==
    /\ op = "init"
    /\ \E o \in TVecs(ty, ArgDom) : Done("minus", a, o, c, s, vec3_minus(ty, a, o), rb)

DoTimes ==
    /\ op = "init"
    /\ \E o \in TVecs(ty, ArgDom) : Done("times", a, o, c, s, vec3_times(ty, a, o), rb)

DoOver ==
    /\ op = "init"
    /\ \E o \in TVecs(ty, ArgDom) :
           /\ Defined(ty, vec3_over(ty, a, o))
           /\ Done("over", a, o, c, s, vec3_over(ty, a, o), rb)

\* a * k
DoTimesScalar ==
    /\ op = "init"
    /\ \E k \in TDom(ty, ArgDom) :
           Done("times_scalar", a, b, c, k, vec3_times_scalar(a, k), rb)

\* a / k
DoOverScalar ==
    /\ op = "init"
    /\ \E k \in TDom(ty, ArgDom) :
           Done("over_scalar", a, b, c, k, vec3_over_scalar(a, k), rb)

NextVec3 ==
    \/ DoZero
    \/ DoSet
    \/ DoAssign
    \/ DoSetArray
    \/ DoAssignView
    \/ DoAddAssign
    \/ DoSubAssign
    \/ DoMulAssign
    \/ DoMulAssignScalar
    \/ DoDivAssign
    \/ DoDivAssignScalar
    \/ DoNormalize
    \/ DoNormalized
    \/ DoEq
    \/ DoNe
    \/ DoMin
    \/ DoMax
    \/ DoClamp
    \/ DoCross
    \/ DoPlus
    \/ DoMinus
    \/ DoTimes
    \/ DoOver
    \/ DoTimesScalar
    \/ DoOverScalar

SpecVec3 == InitVec3 /\ [][NextVec3]_vars

(***************************************************************************)
(* The client of quat<T>.                                                  *)
(***************************************************************************)
QDom == {Num(n) : n \in -1..MaxQuat}

Quats(D) == {quat_ctor(x, y, z, w) : x \in D, y \in D, z \in D, w \in D}

Mat3s == {mat3_zero, mat3_identity, mat3_rotz}

\* the state once operation name has run on receiver q
QDone(name, q2, p2, m2, rv2) ==
    /\ op' = name
    /\ old' = q
    /\ q' = q2
    /\ p' = p2
    /\ mat' = m2
    /\ rv' = rv2
    /\ UNCHANGED <<ty, a, b, c, s, rb>>

\* the quaternions with every component 1/2 or -1/2: unit quaternions
HalfQuats == Quats({<<1, 2>>, <<-1, 2>>})

\* sin(45 degrees) = sqrt(2)/2, as sqrt holds it: 181/256
Sin45 == FDiv(sqrt("f64", Num(2)), Num(2))

\* axisangle((0,1,0), 90 degrees): the quarter turn about y
QuarterTurnY == quat_ctor(Zero, Sin45, Zero, Sin45)

InitQuat ==
    /\ ty \in QuatTypes
    /\ q \in Quats(QDom) \cup HalfQuats \cup {QuarterTurnY}
    /\ p = quat_default
    /\ mat = mat3_zero
    /\ a = vec3_default
    /\ b = vec3_default
    /\ c = vec3_default
    /\ s = Zero
    /\ op = "init"
    /\ old = q
    /\ rv = quat_default
    /\ rb = FALSE

DoQuatZero ==
    /\ op = "init"
    /\ QDone("quat_zero", quat_zero(q), p, mat, rv)

\* q.set(x, y, z, w), q.set(array) and q.set(vec4) with the scalars of o
DoQuatSet ==
    /\ op = "init"
    /\ \E o \in HalfQuats :
           QDone("quat_set", quat_set(q, o[1], o[2], o[3], o[4]), o, mat, rv)

DoQuatSetArray ==
    /\ op = "init"
    /\ \E o \in HalfQuats :
           QDone("quat_set_array", quat_set_array(q, o), o, mat, rv)

DoQuatSetVec4 ==
    /\ op = "init"
    /\ \E o \in HalfQuats :
           QDone("quat_set_vec4", quat_set_vec4(q, o), o, mat, rv)

\* q = o
DoQuatAssign ==
    /\ op = "init"
    /\ \E o \in HalfQuats :
           QDone("quat_assign", quat_assign(q, o), o, mat, rv)

\* q += o
DoQuatAddAssign ==
    /\ op = "init"
    /\ \E o \in HalfQuats :
           QDone("quat_add_assign", quat_add_assign(q, o), o, mat, rv)

\* q -= o
DoQuatSubAssign ==
    /\ op = "init"
    /\ \E o \in HalfQuats :
           QDone("quat_sub_assign", quat_sub_assign(q, o), o, mat, rv)

\* q *= o
DoQuatMulAssign ==
    /\ op = "init"
    /\ \E o \in Quats(QDom) :
           QDone("quat_mul_assign", quat_mul_assign(q, o), o, mat, rv)

\* q * o
DoQuatTimes ==
    /\ op = "init"
    /\ \E o \in Quats(QDom) :
           QDone("quat_times", q, o, mat, quat_times(q, o))

DoInvert ==
    /\ op = "init"
    /\ Exact(FDiv(One, quat_lengthsquared(q)))
    /\ QDone("invert", quat_invert(ty, q), p, mat, rv)

DoInverse ==
    /\ op = "init"
    /\ Exact(FDiv(One, quat_lengthsquared(q)))
    /\ QDone("inverse", q, p, mat, quat_inverse(ty, q))

\* q.inverse() * q
DoInverseTimes ==
    /\ op = "init"
    /\ Exact(FDiv(One, quat_lengthsquared(q)))
    /\ QDone("inverse_times", q, p, mat, quat_times(quat_inverse(ty, q), q))

DoFromMatrix3 ==
    /\ op = "init"
    /\ \E matrix \in Mat3s :
           QDone("frommatrix3", q, p, matrix, quat_frommatrix3(matrix))

\* the state once an operation that takes a vec3 or a scalar has run
QRan(name, q2, p2, b2, s2, rv2, rb2) ==
    /\ op' = name
    /\ old' = q
    /\ q' = q2
    /\ p' = p2
    /\ b' = b2
    /\ s' = s2
    /\ rv' = rv2
    /\ rb' = rb2
    /\ UNCHANGED <<ty, a, c, mat>>

\* the angles handed to axisangle, in radians: 0, pi/3, pi, and 1
AngleDom == {Sixth(0), Sixth(2), Sixth(6), One}

\* axisangle(axis, angle)
DoAxisAngle ==
    /\ op = "init"
    /\ \E axis \in Vecs(ArgDom), angle \in AngleDom :
           QRan("axisangle", q, p, axis, angle, quat_axisangle(axis, angle), rb)

\* a quaternion whose product with identity() lies between 0.99 and 1
NearIdentity == quat_ctor(Zero, Zero, Zero, <<127, 128>>)

\* the second operands handed to slerp
SlerpDom == Quats(QDom) \cup HalfQuats \cup {NearIdentity}

\* the blend factors handed to slerp
BlendDom == {Zero, <<1, 2>>, One}

\* slerp(q, o, blend)
DoSlerp ==
    /\ op = "init"
    /\ \E o \in SlerpDom, blend \in BlendDom :
           QRan("slerp", q, o, b, blend, quat_slerp(q, o, blend), rb)

\* q.normalize()
DoQuatNormalize ==
    /\ op = "init"
    /\ ExactSqrt(quat_lengthsquared(q))
    /\ ExactVec(quat_normalize(ty, q))
    /\ QRan("quat_normalize", quat_normalize(ty, q), p, b, s, rv, rb)

\* q *= k
DoQuatMulAssignScalar ==
    /\ op = "init"
    /\ \E k \in BlendDom \cup QDom :
           QRan("quat_mul_assign_scalar", quat_mul_assign_scalar(q, k), p, b, k, rv, rb)

\* q.set(v, k)
DoQuatSetVec3 ==
    /\ op = "init"
    /\ \E v \in Vecs(ArgDom), k \in BlendDom :
           QRan("quat_set_vec3", quat_set_vec3(q, v, k), p, v, k, rv, rb)

\* q.normalized()
DoQuatNormalized ==
    /\ op = "init"
    /\ ExactSqrt(quat_lengthsquared(q))
    /\ ExactVec(quat_normalized(ty, q))
    /\ QRan("quat_normalized", q, p, b, s, quat_normalized(ty, q), rb)

\* the Euler angles handed to euler, in degrees: multiples of 60 (half of
\* each is on the table), at most one of the three nonzero
DegreeDom == {Num(-60), Num(0), Num(60), Num(120)}

EulerDom ==
    {e \in Vecs(DegreeDom) : Cardinality({i \in 1..3 : e[i] # Zero}) <= 1}

\* quat::euler(e).eulerAngles()
DoEulerRoundTrip ==
    /\ op = "init"
    /\ \E e \in EulerDom :
           QRan("euler_roundtrip", q, quat_euler(ty, e), e, s,
                quat_eulerAngles(quat_euler(ty, e)), rb)

\* q * v
DoRotate ==
    /\ op = "init"
    /\ \E v \in Vecs(ArgDom) :
           QRan("rotate", q, p, v, s, quat_rotate(q, v), rb)

NextQuat ==
    \/ DoAxisAngle
    \/ DoRotate
    \/ DoEulerRoundTrip
    \/ DoQuatNormalize
    \/ DoQuatNormalized
    \/ DoSlerp
    \/ DoQuatZero
    \/ DoQuatSet
    \/ DoQuatSetArray
    \/ DoQuatSetVec4
    \/ DoQuatSetVec3
    \/ DoQuatAssign
    \/ DoQuatAddAssign
    \/ DoQuatSubAssign
    \/ DoQuatMulAssignScalar
    \/ DoQuatMulAssign
    \/ DoQuatTimes
    \/ DoInvert
    \/ DoInverse
    \/ DoInverseTimes
    \/ DoFromMatrix3

SpecQuat == InitQuat /\ [][NextQuat]_vars

(***************************************************************************)
(* Claims about vec3<T>, checked under SpecVec3.                           *)
(***************************************************************************)
\* C1: a == b returns true if and only if a.x == b.x and a.y == b.y and
\* a.z == b.z, for every numeric type T.
C1_EqIffComponentsEqual ==
    op = "eq" =>
        (rb <=> (SEq(a[1], b[1]) /\ SEq(a[2], b[2]) /\ SEq(a[3], b[3])))

\* C2: the padding slot v[3] of the receiver, and of a vec3 that min or max
\* returned, is zero after every operation on vectors built with padding zero.
C2_PaddingIsZero ==
    /\ SEq(a[4], Zero)
    /\ (op \in {"min", "max"} => SEq(rv[4], Zero))

\* C3: normalize() leaves x, y, z divided by the length when the length
\* exceeds epsilon and (0,0,0) otherwise; the zero vector stays the zero
\* vector with no NaN or inf component; normalized() returns that result and
\* leaves the receiver's x, y, z as they were.
C3_NormalizeDividesOrZeroes ==
    op \in {"normalize", "normalized"} =>
        LET res == IF op = "normalize" THEN a ELSE rv
            len == vec3_length(ty, old)
        IN  /\ FloatGt(ty, len, epsilon) =>
                   \A i \in 1..3 : res[i] = SDiv(ty, old[i], len)
            /\ ~FloatGt(ty, len, epsilon) => IsZero3(res)
            /\ IsZero3(old) => (IsZero3(res) /\ \A i \in 1..3 : IsFinite(res[i]))
            /\ op = "normalized" => \A i \in 1..3 : a[i] = old[i]

\* C3 happens: a float vector of length 2 was normalized to a unit vector
C3_Witness ==
    /\ op = "normalize"
    /\ IsFloat(ty)
    /\ vec3_length(ty, old) = Num(2)
    /\ a = vec3_ctor(Zero, One, Zero)

\* C4: max(a,b) and min(a,b) are the component-wise maximum and minimum,
\* and clamp(v,a,b) lies within [a_i, b_i] in every component with
\* a_i <= b_i, for every numeric type T.
C4_MinMaxClampComponentwise ==
    /\ op = "max" =>
           \A i \in 1..3 : rv[i] = (IF TLt(ty, a[i], b[i]) THEN b[i] ELSE a[i])
    /\ op = "min" =>
           \A i \in 1..3 : rv[i] = (IF TLt(ty, b[i], a[i]) THEN b[i] ELSE a[i])
    /\ op = "clamp" =>
           \A i \in 1..3 :
               ~TLt(ty, c[i], b[i]) =>
                   (~TLt(ty, rv[i], b[i]) /\ ~TLt(ty, c[i], rv[i]))

\* C5: cross(a,b) is the component-wise negation, taken in T, of cross(b,a),
\* and cross(a,a) is the zero vector.
C5_CrossAntisymmetric ==
    op = "cross" =>
        /\ \A i \in 1..3 : rv[i] = TSub(ty, Zero, vec3_cross(ty, b, a)[i])
        /\ (\A i \in 1..3 : a[i] = b[i]) => IsZero3(rv)

\* C5 happens: the cross product of two different vectors came out nonzero
C5_Witness ==
    /\ op = "cross"
    /\ a = vec3_ctor(One, Zero, Zero)
    /\ b = vec3_ctor(Zero, One, Zero)
    /\ rv = vec3_ctor(Zero, Zero, One)

(***************************************************************************)
(* Claims about quat<T>, checked under SpecQuat.                           *)
(***************************************************************************)
\* C6: after a *= b, and for a * b, the vector part is
\* b.w*a.xyz + a.w*b.xyz + cross(a.xyz, b.xyz) and the scalar part is
\* a.w*b.w - dot(a.xyz, b.xyz), from the values before the operation.
C6_HamiltonProduct ==
    op \in {"quat_mul_assign", "quat_times"} =>
        LET res == IF op = "quat_mul_assign" THEN q ELSE rv
            x1 == old[1]  y1 == old[2]  z1 == old[3]  w1 == old[4]
            x2 == p[1]    y2 == p[2]    z2 == p[3]    w2 == p[4]
        IN  /\ res # NoProgram
            /\ res[1] = SAdd(SAdd(SMul(w2, x1), SMul(w1, x2)),
                             SSub(SMul(y1, z2), SMul(z1, y2)))
            /\ res[2] = SAdd(SAdd(SMul(w2, y1), SMul(w1, y2)),
                             SSub(SMul(z1, x2), SMul(x1, z2)))
            /\ res[3] = SAdd(SAdd(SMul(w2, z1), SMul(w1, z2)),
                             SSub(SMul(x1, y2), SMul(y1, x2)))
            /\ res[4] = SSub(SMul(w1, w2),
                             SAdd(SAdd(SMul(x1, x2), SMul(y1, y2)), SMul(z1, z2)))

\* the sum of the squares of the four components
SumSq4(v) ==
    SAdd(SAdd(SAdd(SMul(v[1], v[1]), SMul(v[2], v[2])), SMul(v[3], v[3])),
         SMul(v[4], v[4]))

\* C7: with L = lengthsquared != 0, invert() leaves (-x/L, -y/L, -z/L, w/L);
\* inverse() returns that value and leaves the receiver unchanged.
C7_InvertIsConjugateOverLengthSq ==
    (op \in {"invert", "inverse"} /\ SumSq4(old) # Zero) =>
        LET res == IF op = "invert" THEN q ELSE rv
            L   == SumSq4(old)
        IN  /\ res[1] = FDiv(SNeg(old[1]), L)
            /\ res[2] = FDiv(SNeg(old[2]), L)
            /\ res[3] = FDiv(SNeg(old[3]), L)
            /\ res[4] = FDiv(old[4], L)
            /\ op = "inverse" => q = old

\* C8: for q of nonzero length, q.inverse() * q is identity() = (0,0,0,1).
C8_InverseTimesSelfIsIdentity ==
    (op = "inverse_times" /\ SumSq4(old) # Zero) =>
        rv = <<Zero, Zero, Zero, One>>

\* C9: invert() on a quaternion whose lengthsquared is zero changes none of
\* x, y, z, w and produces no NaN or inf.
C9_InvertZeroIsNoOp ==
    (op = "invert" /\ SumSq4(old) = Zero) =>
        /\ q = old
        /\ \A i \in 1..4 : IsFinite(q[i])

\* C9 happens: invert() ran on the zero quaternion
C9_Witness ==
    /\ op = "invert"
    /\ old = <<Zero, Zero, Zero, Zero>>
    /\ q = <<Zero, Zero, Zero, Zero>>

\* C10: frommatrix3(m) returns identity() = (0,0,0,1) for every matrix m.
C10_FromMatrix3IsIdentity ==
    op = "frommatrix3" => rv = <<Zero, Zero, Zero, One>>

\* x and y differ by no more than 1/64
Close(x, y) ==
    /\ IsFinite(x)
    /\ IsFinite(y)
    /\ SLe(SSub(x, y), <<1, 64>>)
    /\ SLe(SSub(y, x), <<1, 64>>)

\* C11: axisangle(axis, angle) returns identity() = (0,0,0,1) for every
\* angle when axis is the zero vector; for a nonzero axis it returns the
\* quaternion with vector part normalized(axis) * sin(angle/2) and scalar
\* part cos(angle/2), so that axisangle(axis, 0) == identity().
C11_AxisAngle ==
    op = "axisangle" =>
        LET unit == vec3_normalized(ty, b)
            half == SMul(s, <<1, 2>>)
        IN  /\ rv # NoProgram
            /\ IsZero3(b) => rv = <<Zero, Zero, Zero, One>>
            /\ (~IsZero3(b) /\ OnTable(half)) =>
                   /\ \A i \in 1..3 : Close(rv[i], SMul(unit[i], sml_sin(half)))
                   /\ Close(rv[4], sml_cos(half))
                   /\ s = Zero => quat_eq(rv, quat_identity)

\* C12: slerp(a, b, t) returns identity() when both a and b have zero
\* length, b when only a has zero length and a when only b has zero length,
\* for every t.
C12_SlerpDegenerate ==
    op = "slerp" =>
        /\ (SumSq4(old) = Zero /\ SumSq4(p) = Zero) =>
               rv = <<Zero, Zero, Zero, One>>
        /\ (SumSq4(old) = Zero /\ SumSq4(p) # Zero) => rv = p
        /\ (SumSq4(old) # Zero /\ SumSq4(p) = Zero) => rv = old

\* x is a multiple of y by a factor other than zero
Parallel4(x, y) ==
    /\ \A i \in 1..4 : IsFinite(x[i])
    /\ \E i \in 1..4 : x[i] # Zero
    /\ \E i \in 1..4 : y[i] # Zero
    /\ \A i \in 1..4 : \A j \in 1..4 : SMul(x[i], y[j]) = SMul(x[j], y[i])

\* the cosine of the half angle between x and y
SlerpCos(x, y) == vec4_dot(x, y)

\* the direction of blendA * a + blendB * (-b) for blend 0, 1/2 and 1, where
\* the weights sin((1 - blend) * h) / sin(h) and sin(blend * h) / sin(h) are
\* in the ratio (1 - blend) : blend whatever the half angle h is
SlerpShortArc(x, y, blend) ==
    [i \in 1..4 |-> SSub(SMul(SSub(One, blend), x[i]), SMul(blend, y[i]))]

\* C13: in slerp, when the dot product of a and b is negative and greater
\* than -1, one operand is negated as a whole before blending: the result
\* is blendA * a + blendB * (-b), or its negation, scaled to unit length.
C13_SlerpFlipsOneOperand ==
    (/\ op = "slerp"
     /\ SumSq4(old) # Zero
     /\ SumSq4(p) # Zero
     /\ SLt(SlerpCos(old, p), Zero)
     /\ SLt(Num(-1), SlerpCos(old, p))) =>
        /\ rv # NoProgram
        /\ Parallel4(rv, SlerpShortArc(old, p, s))

\* C14: for unit quaternions a and b, slerp(a, b, 0) == a and
\* slerp(a, b, 1) == b under the quaternion operator ==.
C14_SlerpEndpoints ==
    (op = "slerp" /\ SumSq4(old) = One /\ SumSq4(p) = One) =>
        /\ rv # NoProgram
        /\ s = Zero => quat_eq(rv, old)
        /\ s = One => quat_eq(rv, p)

\* C15: quat normalize() and normalized() scale a quaternion whose length
\* exceeds epsilon to length 1 and reset one of zero (or near-zero) length
\* to zero, so that no component becomes NaN or inf.
C15_QuatNormalizeGuarded ==
    op \in {"quat_normalize", "quat_normalized"} =>
        LET res == IF op = "quat_normalize" THEN q ELSE rv
            len == quat_length(ty, old)
        IN  /\ \A i \in 1..4 : IsFinite(res[i])
            /\ SGt(len, epsilon) =>
                   \A i \in 1..4 : res[i] = FDiv(old[i], len)
            /\ ~SGt(len, epsilon) => res = <<Zero, Zero, Zero, Zero>>
            /\ op = "quat_normalized" => q = old

\* the quaternion is at the singularity of the Euler angles: x*w - y*z
\* beyond 0.4995 of the squared length, on either side
Singular(me) ==
    LET unit == SumSq4(me)
        test == SSub(SMul(me[1], me[4]), SMul(me[2], me[3]))
    IN  \/ SGt(test, SMul(<<4995, 10000>>, unit))
        \/ SLt(test, SMul(<<-4995, 10000>>, unit))

\* C16: for Euler angles e in degrees off the singularity,
\* quat::euler(e).eulerAngles() returns e again, up to the wrap of each
\* angle into its canonical range.
C16_EulerRoundTrip ==
    (op = "euler_roundtrip" /\ ~Singular(p)) =>
        /\ rv # NoProgram
        /\ \A i \in 1..3 : Close(rv[i], normalizeAngle(b[i]))

\* v rotated by the unit quaternion (u, w) by the right-hand rule:
\* v + 2w (u x v) + 2 u x (u x v)
RightHanded(u, v) ==
    LET uv  == vec3_cross(ty, quat_xyz(u), v)
        uuv == vec3_cross(ty, quat_xyz(u), uv)
    IN  [i \in 1..3 |->
            SAdd(v[i], SAdd(SMul(SMul(Num(2), u[4]), uv[i]),
                            SMul(Num(2), uuv[i])))]

\* C17: quat * vec3 applies the right-handed rotation of the unit
\* quaternion: identity() * v is v for every v, and the quaternion
\* (0, s, 0, s) with s = sin(45 degrees) maps (0,0,1) to (1,0,0).
C17_RotateRightHanded ==
    op = "rotate" =>
        /\ SumSq4(old) = One => \A i \in 1..3 : rv[i] = RightHanded(old, b)[i]
        /\ old = <<Zero, Zero, Zero, One>> => \A i \in 1..3 : rv[i] = b[i]
        /\ (old = QuarterTurnY /\ b = vec3_ctor(Zero, Zero, One)) =>
               /\ Close(rv[1], One)
               /\ Close(rv[2], Zero)
               /\ Close(rv[3], Zero)

\* C17 happens: the quarter turn about y took (0,0,1) to about (1,0,0)
C17_Witness ==
    /\ op = "rotate"
    /\ old = QuarterTurnY
    /\ b = vec3_ctor(Zero, Zero, One)
    /\ rv = vec3_ctor(<<32761, 32768>>, Zero, <<7, 32768>>)

\* C18: v * s and v / s return what *= s and /= s leave in a copy of v,
\* component by component, and v itself is unchanged.
C18_BinaryScalarAgrees ==
    /\ op = "times_scalar" =>
          /\ a = old
          /\ rv # NoProgram
          /\ \A i \in 1..3 :
                 rv[i] = vec3_mul_assign_scalar(ty, vec3_copy(old), s)[i]
    /\ (op = "over_scalar" /\ Defined(ty, vec3_div_assign_scalar(ty, old, s))) =>
          /\ a = old
          /\ rv # NoProgram
          /\ \A i \in 1..3 :
                 rv[i] = vec3_div_assign_scalar(ty, vec3_copy(old), s)[i]

\* C19: for NaN-free a and b exactly one of a == b and a != b is true, and
\* a != b is true exactly when some component differs.
C19_NeComplementsEq ==
    op = "ne" =>
        /\ rb # vec3_eq(ty, a, b)
        /\ rb <=> (\E i \in 1..3 : a[i] # b[i])

====
